---------------------------- MODULE Spec2Model ----------------------------
(***************************************************************************)
(* A model of the gesture-driven particle viewer:                          *)
(*   - App.tsx: the mount effect, startDetection (video-ref wait, model    *)
(*     initialization raced against a timer, camera acquisition, the       *)
(*     detection loop) and the effect's cleanup;                           *)
(*   - services/vision.ts: initializeHandDetection, detectHands and        *)
(*     calculateGestureData;                                               *)
(*   - components/ParticleMesh.tsx: the memo of the two buffers, the       *)
(*     effect and the frame callback (expansion smoothing, spin, tilt);    *)
(*   - utils/geometry.ts: generateParticles;                               *)
(*   - the asset-preparation script: main and download.                    *)
(*                                                                         *)
(* Numbers.  Landmark coordinates, distances, expansion and lift are reals *)
(* in the source.  Here they are fixed-point integers in units of 1/Scale  *)
(* (0.001): 1.0 is Scale, 0.15 is 150.  Math.sqrt is the floor of the      *)
(* square root in those units, and a division is a floor division.  The    *)
(* inputs are drawn from grids of even values, so that the average of two  *)
(* coordinates is exact.                                                   *)
(***************************************************************************)
EXTENDS Integers, Sequences, FiniteSets, TLC

VARIABLES
    mounted,        \* the mount effect is active (its cleanup has not run)
    videoRef,       \* videoRef.current is a video element (not null)
    srcObject,      \* video.srcObject: 0 (null) or the run whose stream it is
    stream,         \* per run: "none", "live" or "stopped" (the MediaStream's tracks)
    pc,             \* per run: where that call of startDetection stands
    waitCount,      \* per run: startDetection's local waitCount
    initPc,         \* per run: where its call of initializeHandDetection stands
    handLandmarker, \* vision.ts module variable: a detector is stored
    loading,        \* React state
    isTracking,     \* React state
    error,          \* React state: which message is shown (NoError: null)
    detectedHands,  \* React state
    gestureRef,     \* the gesture mailbox, gestureRef.current
    requestRef,     \* requestRef.current: 0 (undefined) or the run that scheduled the handle
    pending,        \* per run: number of pending animation-frame callbacks of its loop
    failure,        \* per run: the error its catch block received ("none": none)
    lastFrame,      \* how the latest loop iteration went
    initCalls,      \* number of calls of initializeHandDetection so far
    gumCalls,       \* number of calls of getUserMedia so far
    result,         \* the detection result handed to calculateGestureData (GestureSpec)
    data,           \* <<>> or <<the GestureData calculateGestureData returned>> (GestureSpec)
    now,            \* what Date.now() returns: the wall clock, in milliseconds
    lastTs,         \* the timestamp of the latest detectForVideo call (NoTs: none yet)
    tsOk,           \* every detectForVideo call so far got a later timestamp than the one before
    activeShape,    \* React state of App: the shape shown
    positions,      \* the mesh instance's memo: the position buffer
    randomness,     \* the mesh instance's memo: the explosion-direction buffer
    attrPosition,   \* geometry.attributes.position
    attrRandom,     \* geometry.attributes.aRandom
    effectPending,  \* the mesh instance's effect has not run yet
    uExpansion,     \* uniforms.uExpansion.value
    rotationX,      \* meshRef.current.rotation.x
    rotationY,      \* meshRef.current.rotation.y
    frames,         \* number of render frames so far
    genShape,       \* generateParticles' argument shape
    genCount,       \* generateParticles' argument count
    genI,           \* generateParticles' loop index i
    written,        \* per slot of the position buffer: the number of setPoint calls for it
    finite,         \* every component written so far is a finite number
    branch,         \* the branch of the switch the latest particle took
    rand,           \* the direction buffer so far, one vector per particle
    env,            \* the script's environment: SKIP_MP_PREPARE, the files there, MEDIAPIPE_MODEL_URL
    sPc,            \* where the asset-preparation script stands
    mirror,         \* index into sources of the download under way
    redirects,      \* doReq's redirects argument
    copied,         \* copyDir copied the wasm files
    requests,       \* number of https.get calls so far
    modelWritten,   \* the model file was written completely
    exitCode,       \* the exit code of the script's process ("unset": still running)
    stored,         \* which detector handLandmarker holds: 0 (null) or the run whose call created it
    returned        \* per run: the detector its initializeHandDetection call returned (0: none yet)

lifeVars == <<mounted, videoRef, srcObject, stream, pc, waitCount, initPc,
              handLandmarker, failure, initCalls, gumCalls>>
uiVars == <<loading, isTracking, error>>
loopVars == <<detectedHands, gestureRef, requestRef, pending, lastFrame, lastTs, tsOk>>
calcVars == <<result, data>>
meshVars == <<activeShape, positions, randomness, attrPosition, attrRandom,
              effectPending, uExpansion, rotationX, rotationY, frames>>
genVars == <<genShape, genCount, genI, written, finite, branch, rand>>
scriptVars == <<env, sPc, mirror, redirects, copied, requests, modelWritten, exitCode>>
detVars == <<stored, returned>>
appVars == <<lifeVars, uiVars, loopVars, calcVars, detVars>>
otherVars == <<now, meshVars, genVars, scriptVars, detVars>>
vars == <<lifeVars, uiVars, loopVars, calcVars, otherVars>>

----------------------------------------------------------------------------
(* Bounds and units *)

\* Concurrent calls of startDetection the model tracks.
MaxRuns == 2
Runs == 1..MaxRuns

\* Fixed-point unit: 1.0 is Scale.
Scale == 10 * 100
\* Largest square root ISqrt looks for (distances stay below 4.0).
SqrtCap == 4 * Scale

----------------------------------------------------------------------------
(* Arithmetic *)

RECURSIVE SqrtSearch(_, _, _)
SqrtSearch(n, lo, hi) ==
    IF lo >= hi THEN lo
    ELSE LET mid == (lo + hi + 1) \div 2
         IN  IF mid * mid <= n THEN SqrtSearch(n, mid, hi)
                               ELSE SqrtSearch(n, lo, mid - 1)

\* Math.sqrt on fixed-point squares: the floor of the square root.
ISqrt(n) == SqrtSearch(n, 0, IF n < SqrtCap THEN n ELSE SqrtCap)

Min(a, b) == IF a <= b THEN a ELSE b
Max(a, b) == IF a >= b THEN a ELSE b

\* A mutation of Clamp01: the clamp is left out.
Clamp01Missing(raw) == raw

\* Math.min(Math.max(raw, 0), 1)
Clamp01(raw) == Min(Max(raw, 0), Scale)

----------------------------------------------------------------------------
(* services/vision.ts: calculateGestureData *)

\* minD = 0.15, maxD = 0.50 (two hands); minSpread = 0.5, maxSpread = 1.2 (one hand)
MinD == 150
MaxD == 500
MinSpread == 500
MaxSpread == 1200
\* the hand size substituted when the measured one is 0 (0.1)
HandSizeFallback == 100
\* the default lift (0.5)
LiftCenter == 500

\* { expansion: 0, lift: 0.5 }: the defaults of calculateGestureData, and
\* gestureRef's initial value.
DefaultGesture == [expansion |-> 0, lift |-> LiftCenter]

Pt(px, py) == [x |-> px, y |-> py]

\* One hand's landmark list, by the four landmarks the code reads: hand[0],
\* hand[4], hand[9], hand[20].  empty: the list holds no landmark at all.
Hand(w, t, m, p) ==
    [empty |-> FALSE, wrist |-> w, thumbTip |-> t, middleMCP |-> m, pinkyTip |-> p]

\* A HandLandmarkerResult: hasLandmarks is FALSE when result.landmarks is missing.
Result(hands) == [hasLandmarks |-> TRUE, landmarks |-> hands]
NoLandmarks == [hasLandmarks |-> FALSE, landmarks |-> <<>>]

NumHands(res) == IF res.hasLandmarks THEN Len(res.landmarks) ELSE 0

\* dx * dx + dy * dy
Dist2(a, b) == (a.x - b.x) * (a.x - b.x) + (a.y - b.y) * (a.y - b.y)

\* A mutation of TwoHandExpansion: the raw value is rescaled from [0, maxD].
TwoHandExpansionNoMin(h1, h2) ==
    LET distance == ISqrt(Dist2(h1, h2))
        raw == (distance * Scale) \div MaxD
    IN  Clamp01(raw)

\* Two hands: expansion from the distance between the wrists.
TwoHandExpansion(h1, h2) ==
    LET distance == ISqrt(Dist2(h1, h2))
        raw == ((distance - MinD) * Scale) \div (MaxD - MinD)
    IN  Clamp01(raw)

\* A mutation of OneHandExpansion: the spread is measured from the thumb tip
\* to the wrist (hand[0] read in place of hand[20]).
OneHandExpansionToWrist(hand) ==
    LET spread == ISqrt(Dist2(hand.thumbTip, hand.wrist))
        measured == ISqrt(Dist2(hand.middleMCP, hand.wrist))
        handSize == IF measured = 0 THEN HandSizeFallback ELSE measured
        normalizedSpread == (spread * Scale) \div handSize
        raw == ((normalizedSpread - MinSpread) * Scale) \div (MaxSpread - MinSpread)
    IN  Clamp01(raw)

\* One hand: expansion from the thumb-to-pinky spread over the hand size.
OneHandExpansion(hand) ==
    LET spread == ISqrt(Dist2(hand.thumbTip, hand.pinkyTip))
        measured == ISqrt(Dist2(hand.middleMCP, hand.wrist))
        handSize == IF measured = 0 THEN HandSizeFallback ELSE measured
        normalizedSpread == (spread * Scale) \div handSize
        raw == ((normalizedSpread - MinSpread) * Scale) \div (MaxSpread - MinSpread)
    IN  Clamp01(raw)

\* A mutation of calculateGestureData: more than two hands are treated as two.
calculateGestureDataManyAsTwo(res) ==
    IF ~res.hasLandmarks \/ Len(res.landmarks) = 0
    THEN DefaultGesture
    ELSE IF Len(res.landmarks) >= 2
    THEN LET hand1 == res.landmarks[1].wrist
             hand2 == res.landmarks[2].wrist
         IN  [expansion |-> TwoHandExpansion(hand1, hand2),
              lift |-> (hand1.y + hand2.y) \div 2]
    ELSE [expansion |-> OneHandExpansion(res.landmarks[1]),
          lift |-> res.landmarks[1].wrist.y]

calculateGestureData(res) ==
    IF ~res.hasLandmarks \/ Len(res.landmarks) = 0
    THEN DefaultGesture
    ELSE IF Len(res.landmarks) = 2
    THEN LET hand1 == res.landmarks[1].wrist
             hand2 == res.landmarks[2].wrist
         IN  [expansion |-> TwoHandExpansion(hand1, hand2),
              lift |-> (hand1.y + hand2.y) \div 2]
    ELSE IF Len(res.landmarks) = 1
    THEN [expansion |-> OneHandExpansion(res.landmarks[1]),
          lift |-> res.landmarks[1].wrist.y]
    ELSE DefaultGesture

\* calculateGestureData throws (a TypeError on reading .x of undefined) when a
\* hand it reads landmarks from holds none.
CalcThrows(res) ==
    /\ res.hasLandmarks
    /\ Len(res.landmarks) \in {1, 2}
    /\ \E i \in 1..Len(res.landmarks) : res.landmarks[i].empty

----------------------------------------------------------------------------
(* services/vision.ts: detectHands *)

\* What detectForVideo does on one frame: it throws, or returns res.
Detection(t, res) == [threw |-> t, res |-> res]

\* detectHands' return value: null, or the detector's result.
NullResult == [isNull |-> TRUE, res |-> NoLandmarks]

detectHands(detector, det) ==
    IF ~detector THEN NullResult
    ELSE IF det.threw THEN NullResult
    ELSE [isNull |-> FALSE, res |-> det.res]

\* detectHands(video, startTimeMs) hands startTimeMs to detectForVideo when a
\* detector is stored.
NoTs == 0 - 1

Stamp(detector, startTimeMs) ==
    IF detector
    THEN /\ lastTs' = startTimeMs
         /\ tsOk' = (tsOk /\ (lastTs = NoTs \/ lastTs < startTimeMs))
    ELSE UNCHANGED <<lastTs, tsOk>>

----------------------------------------------------------------------------
(* App.tsx: the errors startDetection's catch block receives, and the      *)
(* message it picks.  A message is the tuple of its characters, so that    *)
(* the regular expressions are tested as the code tests them: as           *)
(* case-insensitive substring searches.                                    *)

UpperCase == <<"A", "B", "C", "D", "E", "F", "G", "H", "I", "J", "K", "L", "M", "N", "O", "P", "Q", "R", "S", "T", "U", "V", "W", "X", "Y", "Z">>
LowerCase == <<"a", "b", "c", "d", "e", "f", "g", "h", "i", "j", "k", "l", "m", "n", "o", "p", "q", "r", "s", "t", "u", "v", "w", "x", "y", "z">>

ToLower(c) ==
    IF \E i \in 1..Len(UpperCase) : UpperCase[i] = c
    THEN LowerCase[CHOOSE i \in 1..Len(UpperCase) : UpperCase[i] = c]
    ELSE c

\* s contains p, letter case ignored (p is given in lower case)
ContainsI(s, p) ==
    \E i \in 1..(Len(s) - Len(p) + 1) :
        \A j \in 1..Len(p) : ToLower(s[i + j - 1]) = p[j]

\* /wasm|cdn|fetch|network|ERR/i
NetworkWords == {<<"w", "a", "s", "m">>,
                 <<"c", "d", "n">>,
                 <<"f", "e", "t", "c", "h">>,
                 <<"n", "e", "t", "w", "o", "r", "k">>,
                 <<"e", "r", "r">>}
\* /permission|denied/i
PermissionWords == {<<"p", "e", "r", "m", "i", "s", "s", "i", "o", "n">>,
                    <<"d", "e", "n", "i", "e", "d">>}

RegexTest(words, msg) == \E w \in words : ContainsI(msg, w)

InitTimeoutMessage == <<"i", "n", "i", "t", "_", "t", "i", "m", "e", "o", "u", "t">>

\* The errors of the model, by an identifier: [name, message].
ErrorOf(id) ==
    CASE id = "init_timeout" ->
           [name |-> "Error", message |-> InitTimeoutMessage]
      [] id = "fetch_failed" ->
           [name |-> "TypeError", message |-> <<"F", "a", "i", "l", "e", "d", " ", "t", "o", " ", "f", "e", "t", "c", "h">>]
      [] id = "wasm_failed" ->
           [name |-> "RuntimeError", message |-> <<"w", "a", "s", "m", " ", "l", "o", "a", "d", " ", "f", "a", "i", "l", "e", "d">>]
      [] id = "denied" ->
           [name |-> "NotAllowedError", message |-> <<"P", "e", "r", "m", "i", "s", "s", "i", "o", "n", " ", "d", "e", "n", "i", "e", "d">>]
      [] id = "denied_err" ->
           [name |-> "NotAllowedError", message |-> <<"p", "e", "r", "m", "i", "s", "s", "i", "o", "n", " ", "e", "r", "r", "o", "r">>]
      [] id = "not_found" ->
           [name |-> "NotFoundError", message |-> <<"R", "e", "q", "u", "e", "s", "t", "e", "d", " ", "d", "e", "v", "i", "c", "e", " ", "n", "o", "t", " ", "f", "o", "u", "n", "d">>]
      [] id = "interrupted" ->
           [name |-> "AbortError", message |-> <<"T", "h", "e", " ", "p", "l", "a", "y", "(", ")", " ", "r", "e", "q", "u", "e", "s", "t", " ", "w", "a", "s", " ", "i", "n", "t", "e", "r", "r", "u", "p", "t", "e", "d">>]
      [] id = "null_ref" ->
           [name |-> "TypeError", message |-> <<"C", "a", "n", "n", "o", "t", " ", "s", "e", "t", " ", "p", "r", "o", "p", "e", "r", "t", "i", "e", "s", " ", "o", "f", " ", "n", "u", "l", "l">>]

\* What initializeHandDetection, getUserMedia and video.play() reject with.
InitErrors == {"fetch_failed", "wasm_failed"}
GumErrors == {"denied", "denied_err", "not_found"}
PlayErrors == {"interrupted"}

\* error === null
NoError == "none"

\* The catch block's choice of message.
Classify(id) ==
    LET err == ErrorOf(id)
        msg == err.message
    IN  IF msg = InitTimeoutMessage \/ RegexTest(NetworkWords, msg) THEN "network"
        ELSE IF err.name = "NotAllowedError" \/ RegexTest(PermissionWords, msg)
        THEN "camera"
        ELSE "generic"

----------------------------------------------------------------------------
(* components/ParticleMesh.tsx: the buffers of one mesh instance, and the   *)
(* numbers of its frame callback.  A buffer is described by the (shape,     *)
(* count) pair it was generated for and its length.                         *)

Shapes == {"HEART", "ROSE", "SATURN", "DL", "TREE"}

\* count={20000}
ParticleCount == 20000

\* const lerpSpeed = 0.1
LerpSpeed == 100

\* the weight of the tilt's lerp, 0.05
TiltSpeed == 50

\* rotation.y += 0.001
SpinStep == 1

\* (lift - 0.5) * 1.5
TiltCenter == 500
TiltGain == 1500

Buffer(shape, count, length) == [shape |-> shape, count |-> count, length |-> length]

\* A mutation of MeshMemo: the direction buffer holds one component per
\* particle (new Float32Array(count)).
MeshMemoShortRandom(shape, count) ==
    [positions |-> Buffer(shape, count, count * 3),
     randomness |-> Buffer(shape, count, count)]

\* useMemo(() => {positions, randomness}, [shape, count]): generateParticles'
\* Float32Array(count * 3) and the Float32Array(count * 3) of directions.
MeshMemo(shape, count) ==
    [positions |-> Buffer(shape, count, count * 3),
     randomness |-> Buffer(shape, count, count * 3)]

\* THREE.MathUtils.lerp(x, y, t) = (1 - t) * x + t * y
Lerp(x, y, t) == ((Scale - t) * x + t * y) \div Scale

\* A mutation of ExpansionStep: fast close, slow open.
ExpansionStepAsymmetric(current, target) ==
    Lerp(current, target, IF target < current THEN 3 * LerpSpeed ELSE LerpSpeed)

ExpansionStep(current, target) == Lerp(current, target, LerpSpeed)

\* A mutation of Spins: only the heart is kept from spinning.
SpinsUnlessHeart(shape) == shape # "HEART"

\* shape !== ShapeType.HEART && shape !== ShapeType.DL
Spins(shape) == shape # "HEART" /\ shape # "DL"

TargetTilt(lift) == ((lift - TiltCenter) * TiltGain) \div Scale

\* The mesh App renders first: the memo's buffers are on the geometry (the
\* bufferAttribute elements), the uniform and the rotation are 0, and the
\* effect of the mount has not run yet.
MeshInit ==
    /\ activeShape = "HEART"
    /\ positions = MeshMemo("HEART", ParticleCount).positions
    /\ randomness = MeshMemo("HEART", ParticleCount).randomness
    /\ attrPosition = positions
    /\ attrRandom = randomness
    /\ effectPending = TRUE
    /\ uExpansion = 0
    /\ rotationX = 0
    /\ rotationY = 0
    /\ frames = 0

\* generateParticles and the direction loop are not being run.
GenIdle ==
    /\ genShape = "HEART"
    /\ genCount = 0
    /\ genI = 0
    /\ written = <<>>
    /\ finite = TRUE
    /\ branch = "none"
    /\ rand = <<>>

\* The asset-preparation script is not being run.
ScriptIdle ==
    /\ env = [skip |-> <<>>, wasm |-> "missing", model |-> FALSE, envUrl |-> FALSE]
    /\ sPc = "notRun"
    /\ mirror = 0
    /\ redirects = 0
    /\ copied = FALSE
    /\ requests = 0
    /\ modelWritten = FALSE
    /\ exitCode = "unset"

----------------------------------------------------------------------------
(* App.tsx: the state after the first render and the mount effect, which   *)
(* ran startDetection up to its first await: the 50 ms timer of the wait   *)
(* for videoRef, or, with the video there, the race of                     *)
(* initializeHandDetection (itself at its first await) against the timer   *)

\* while (!videoRef.current && waitCount < 10)
MaxWait == 10

TypeOK ==
    /\ mounted \in BOOLEAN /\ videoRef \in BOOLEAN /\ handLandmarker \in BOOLEAN
    /\ srcObject \in 0..MaxRuns /\ requestRef \in 0..MaxRuns
    /\ stream \in [Runs -> {"none", "live", "stopped"}]
    /\ pc \in [Runs -> {"idle", "waitVideo", "awaitInit", "awaitGum", "awaitPlay",
                        "looping", "failed", "returned"}]
    /\ waitCount \in [Runs -> 0..MaxWait]
    /\ initPc \in [Runs -> {"none", "fileset", "create", "resolved", "rejected"}]
    /\ loading \in BOOLEAN /\ isTracking \in BOOLEAN
    /\ error \in {NoError, "noVideo", "network", "camera", "generic"}
    /\ detectedHands \in Nat
    /\ pending \in [Runs -> Nat]
    /\ lastFrame \in {"none", "notReady", "null", "noLandmarks", "threw", "detected"}

\* The application's own state.
AppInit ==
    /\ mounted = TRUE
    /\ videoRef \in BOOLEAN
    /\ srcObject = 0
    /\ stream = [r \in Runs |-> "none"]
    /\ pc = [r \in Runs |-> IF r # 1 THEN "idle"
                             ELSE IF videoRef THEN "awaitInit" ELSE "waitVideo"]
    /\ waitCount = [r \in Runs |-> 0]
    /\ initPc = [r \in Runs |-> IF r = 1 /\ videoRef THEN "fileset" ELSE "none"]
    /\ handLandmarker = FALSE
    /\ loading = TRUE
    /\ isTracking = FALSE
    /\ error = NoError
    /\ detectedHands = 0
    /\ gestureRef = DefaultGesture
    /\ requestRef = 0
    /\ pending = [r \in Runs |-> 0]
    /\ failure = [r \in Runs |-> "none"]
    /\ lastFrame = "none"
    /\ initCalls = (IF videoRef THEN 1 ELSE 0)
    /\ gumCalls = 0
    /\ result = NoLandmarks
    /\ data = <<>>
    /\ now = 0
    /\ lastTs = NoTs
    /\ tsOk = TRUE
    /\ stored = 0
    /\ returned = [r \in Runs |-> 0]

Init ==
    /\ AppInit
    /\ MeshInit
    /\ GenIdle
    /\ ScriptIdle

----------------------------------------------------------------------------
(* The video element's ref, which React sets and clears *)

\* React attaches the <video> element to videoRef.
AttachVideoRef ==
    /\ mounted /\ ~videoRef
    /\ videoRef' = TRUE
    /\ UNCHANGED <<mounted, srcObject, stream, pc, waitCount, initPc, handLandmarker,
                   failure, initCalls, gumCalls, uiVars, loopVars, calcVars, otherVars>>

\* After the cleanup ran the element is gone and videoRef.current is null.
DetachVideoRef ==
    /\ ~mounted /\ videoRef
    /\ videoRef' = FALSE
    /\ UNCHANGED <<mounted, srcObject, stream, pc, waitCount, initPc, handLandmarker,
                   failure, initCalls, gumCalls, uiVars, loopVars, calcVars, otherVars>>

----------------------------------------------------------------------------
(* App.tsx: startDetection *)

\* A mutation of Fail: the catch block does not call setLoading(false).
FailKeepsLoading(r, id) ==
    /\ error' = Classify(id)
    /\ loading' = loading
    /\ isTracking' = FALSE
    /\ pc' = [pc EXCEPT ![r] = "failed"]
    /\ failure' = [failure EXCEPT ![r] = id]

\* The catch block: the message for err, loading and tracking off.
Fail(r, id) ==
    /\ error' = Classify(id)
    /\ loading' = FALSE
    /\ isTracking' = FALSE
    /\ pc' = [pc EXCEPT ![r] = "failed"]
    /\ failure' = [failure EXCEPT ![r] = id]

\* A 50 ms timer of the wait for videoRef fires: waitCount++, and with the
\* video still missing and waitCount below 10 the next timer is awaited.
WaitVideo(r) ==
    /\ pc[r] = "waitVideo" /\ ~videoRef /\ waitCount[r] + 1 < MaxWait
    /\ waitCount' = [waitCount EXCEPT ![r] = @ + 1]
    /\ UNCHANGED <<mounted, videoRef, srcObject, stream, pc, initPc, handLandmarker,
                   failure, initCalls, gumCalls, uiVars, loopVars, calcVars, otherVars>>

\* The last timer of the wait fires with the video still missing: the
\* internal-error message, and startDetection returns.
NoVideo(r) ==
    /\ pc[r] = "waitVideo" /\ ~videoRef /\ waitCount[r] + 1 >= MaxWait
    /\ waitCount' = [waitCount EXCEPT ![r] = @ + 1]
    /\ error' = "noVideo"
    /\ loading' = FALSE
    /\ pc' = [pc EXCEPT ![r] = "returned"]
    /\ UNCHANGED <<mounted, videoRef, srcObject, stream, initPc,
                   handLandmarker, failure, initCalls, gumCalls, isTracking,
                   loopVars, calcVars, otherVars>>

\* A timer of the wait fires and the video is there: setLoading(true),
\* initializeHandDetection() is called and raced against the 8 s timer.  With
\* a detector already stored the call resolves at once and getUserMedia is
\* called.
BeginInit(r) ==
    /\ pc[r] = "waitVideo" /\ videoRef
    /\ waitCount' = [waitCount EXCEPT ![r] = @ + 1]
    /\ loading' = TRUE
    /\ initCalls' = initCalls + 1
    /\ IF handLandmarker
       THEN \* if (handLandmarker) return handLandmarker
            /\ returned' = [returned EXCEPT ![r] = stored]
            /\ initPc' = [initPc EXCEPT ![r] = "resolved"]
            /\ pc' = [pc EXCEPT ![r] = "awaitGum"]
            /\ gumCalls' = gumCalls + 1
       ELSE /\ initPc' = [initPc EXCEPT ![r] = "fileset"]
            /\ pc' = [pc EXCEPT ![r] = "awaitInit"]
            /\ gumCalls' = gumCalls
            /\ returned' = returned
    /\ UNCHANGED <<mounted, videoRef, srcObject, stream, handLandmarker, stored,
                   failure, isTracking, error, loopVars, calcVars, now, meshVars, genVars, scriptVars>>

\* initializeHandDetection: FilesetResolver.forVisionTasks resolved, and
\* HandLandmarker.createFromOptions is called.
InitFilesetResolved(r) ==
    /\ initPc[r] = "fileset"
    /\ initPc' = [initPc EXCEPT ![r] = "create"]
    /\ UNCHANGED <<mounted, videoRef, srcObject, stream, pc, waitCount, handLandmarker,
                   failure, initCalls, gumCalls, uiVars, loopVars, calcVars, otherVars>>

\* initializeHandDetection: createFromOptions resolved; the detector is
\* stored.  A startDetection still waiting in the race goes on to getUserMedia.
InitCreated(r) ==
    /\ initPc[r] = "create"
    /\ initPc' = [initPc EXCEPT ![r] = "resolved"]
    /\ handLandmarker' = TRUE
    /\ stored' = r
    /\ returned' = [returned EXCEPT ![r] = r]
    /\ IF pc[r] = "awaitInit"
       THEN /\ pc' = [pc EXCEPT ![r] = "awaitGum"]
            /\ gumCalls' = gumCalls + 1
       ELSE UNCHANGED <<pc, gumCalls>>
    /\ UNCHANGED <<mounted, videoRef, srcObject, stream, waitCount, failure,
                   initCalls, uiVars, loopVars, calcVars, now, meshVars, genVars, scriptVars>>

\* initializeHandDetection rejects (the WASM files or the model cannot be
\* loaded).  A startDetection still waiting in the race catches the error.
InitRejected(r) ==
    /\ initPc[r] \in {"fileset", "create"}
    /\ initPc' = [initPc EXCEPT ![r] = "rejected"]
    /\ IF pc[r] = "awaitInit"
       THEN \E id \in InitErrors : Fail(r, id)
       ELSE UNCHANGED <<pc, failure, uiVars>>
    /\ UNCHANGED <<mounted, videoRef, srcObject, stream, waitCount, handLandmarker,
                   initCalls, gumCalls, loopVars, calcVars, otherVars>>

\* A mutation of InitTimeout: the timer fires and nothing listens to it.
InitTimeoutIgnored(r) ==
    /\ pc[r] = "awaitInit"
    /\ UNCHANGED vars

\* The 8 s timer fires while the race is undecided: Error('init_timeout') is
\* caught.  The call of initializeHandDetection goes on in the background.
InitTimeout(r) ==
    /\ pc[r] = "awaitInit"
    /\ Fail(r, "init_timeout")
    /\ UNCHANGED <<mounted, videoRef, srcObject, stream, waitCount, initPc,
                   handLandmarker, initCalls, gumCalls, loopVars, calcVars, otherVars>>

\* getUserMedia resolved with a stream: it becomes the video's srcObject and
\* play() is called.  With videoRef.current null the assignment throws.
GumResolved(r) ==
    /\ pc[r] = "awaitGum"
    /\ stream' = [stream EXCEPT ![r] = "live"]
    /\ IF videoRef
       THEN /\ srcObject' = r
            /\ pc' = [pc EXCEPT ![r] = "awaitPlay"]
            /\ UNCHANGED <<failure, uiVars>>
       ELSE /\ Fail(r, "null_ref")
            /\ UNCHANGED srcObject
    /\ UNCHANGED <<mounted, videoRef, waitCount, initPc, handLandmarker,
                   initCalls, gumCalls, loopVars, calcVars, otherVars>>

\* getUserMedia rejected.
GumRejected(r) ==
    /\ pc[r] = "awaitGum"
    /\ \E id \in GumErrors : Fail(r, id)
    /\ UNCHANGED <<mounted, videoRef, srcObject, stream, waitCount, initPc,
                   handLandmarker, initCalls, gumCalls, loopVars, calcVars, otherVars>>

\* video.play() rejected.
PlayRejected(r) ==
    /\ pc[r] = "awaitPlay"
    /\ \E id \in PlayErrors : Fail(r, id)
    /\ UNCHANGED <<mounted, videoRef, srcObject, stream, waitCount, initPc,
                   handLandmarker, initCalls, gumCalls, loopVars, calcVars, otherVars>>

----------------------------------------------------------------------------
(* App.tsx: the detection loop *)

\* The guarded part of loop's body: ready is videoRef.current.readyState >= 2,
\* det is what detectForVideo does on this frame.
FrameEffect(ready, det) ==
    IF videoRef /\ ready
    THEN LET res == detectHands(handLandmarker, det)
         IN  /\ Stamp(handLandmarker, now)
             /\ IF res.isNull
                 THEN /\ detectedHands' = 0
                      /\ gestureRef' = gestureRef
                      /\ lastFrame' = "null"
                 ELSE IF ~res.res.hasLandmarks
                 THEN /\ detectedHands' = 0
                      /\ gestureRef' = gestureRef
                      /\ lastFrame' = "noLandmarks"
                 ELSE IF CalcThrows(res.res)
                 THEN \* setDetectedHands(n), the throw, then the catch's setDetectedHands(0)
                      /\ detectedHands' = 0
                      /\ gestureRef' = gestureRef
                      /\ lastFrame' = "threw"
                 ELSE /\ detectedHands' = Len(res.res.landmarks)
                      /\ gestureRef' = calculateGestureData(res.res)
                      /\ lastFrame' = "detected"
    ELSE /\ lastFrame' = "notReady"
         /\ UNCHANGED <<detectedHands, gestureRef, lastTs, tsOk>>

\* A mutation of LoopBody: the next frame is requested inside the try block,
\* after the detection, so that a frame whose detection throws requests none.
LoopBodyRequestsInTry(r, left, ready, det) ==
    /\ FrameEffect(ready, det)
    /\ IF lastFrame' = "threw"
       THEN /\ pending' = [pending EXCEPT ![r] = left]
            /\ requestRef' = requestRef
       ELSE /\ pending' = [pending EXCEPT ![r] = left + 1]
            /\ requestRef' = r

\* One run of loop's body for run r, with `left` callbacks of r still
\* pending: the guarded part, then requestRef.current = requestAnimationFrame(loop).
LoopBody(r, left, ready, det) ==
    /\ FrameEffect(ready, det)
    /\ pending' = [pending EXCEPT ![r] = left + 1]
    /\ requestRef' = r

\* Landmarks of the sample frames the lifecycle model feeds the loop.
FingerPt == Pt(300, 400)
WristOnly(w) == Hand(w, FingerPt, FingerPt, FingerPt)
EmptyHand == [empty |-> TRUE, wrist |-> FingerPt, thumbTip |-> FingerPt,
              middleMCP |-> FingerPt, pinkyTip |-> FingerPt]

SampleResults ==
    { NoLandmarks,
      Result(<<>>),
      Result(<<WristOnly(Pt(100, 300)), WristOnly(Pt(600, 300))>>),
      Result(<<Hand(Pt(300, 700), Pt(200, 400), Pt(300, 600), Pt(260, 400))>>),
      Result(<<EmptyHand>>) }

Detections ==
    {Detection(TRUE, NoLandmarks)} \cup {Detection(FALSE, res) : res \in SampleResults}

\* play() resolved: tracking on, error cleared, loading off, and loop() is
\* called for the first time.
PlayResolved(r) ==
    /\ pc[r] = "awaitPlay"
    /\ isTracking' = TRUE
    /\ error' = NoError
    /\ loading' = FALSE
    /\ pc' = [pc EXCEPT ![r] = "looping"]
    /\ \E ready \in BOOLEAN, det \in Detections : LoopBody(r, pending[r], ready, det)
    /\ UNCHANGED <<mounted, videoRef, srcObject, stream, waitCount, initPc,
                   handLandmarker, failure, initCalls, gumCalls, calcVars, otherVars>>

\* An animation-frame callback of run r's loop fires.
LoopFrame(r) ==
    /\ pending[r] > 0
    /\ \E ready \in BOOLEAN, det \in Detections : LoopBody(r, pending[r] - 1, ready, det)
    /\ UNCHANGED <<lifeVars, uiVars, calcVars, otherVars>>

----------------------------------------------------------------------------
(* App.tsx: the mount effect's cleanup *)

Teardown ==
    /\ mounted
    /\ mounted' = FALSE
    /\ pending' = IF requestRef # 0 /\ pending[requestRef] > 0
                  THEN [pending EXCEPT ![requestRef] = @ - 1]
                  ELSE pending
    /\ IF videoRef /\ srcObject # 0
       THEN /\ stream' = [stream EXCEPT ![srcObject] = "stopped"]
            /\ srcObject' = 0
       ELSE UNCHANGED <<stream, srcObject>>
    /\ UNCHANGED <<videoRef, pc, waitCount, initPc, handLandmarker, failure,
                   initCalls, gumCalls, uiVars, detectedHands, gestureRef,
                   requestRef, lastFrame, lastTs, tsOk, calcVars, otherVars>>

----------------------------------------------------------------------------
(* The application mounted once *)

Next ==
    \/ AttachVideoRef
    \/ DetachVideoRef
    \/ Teardown
    \/ \E r \in Runs :
          \/ WaitVideo(r)
          \/ NoVideo(r)
          \/ BeginInit(r)
          \/ InitFilesetResolved(r)
          \/ InitCreated(r)
          \/ InitRejected(r)
          \/ InitTimeout(r)
          \/ GumResolved(r)
          \/ GumRejected(r)
          \/ PlayResolved(r)
          \/ PlayRejected(r)
          \/ LoopFrame(r)

Spec == Init /\ [][Next]_vars

\* What the browser's scheduling guarantees: a timer that was set fires (the
\* 50 ms waits, the 8 s timer), and code that can run on does.  Nothing makes
\* the network, the user or the camera answer.
FairSpec ==
    /\ Spec
    /\ \A r \in Runs :
          /\ WF_vars(WaitVideo(r))
          /\ WF_vars(NoVideo(r))
          /\ WF_vars(BeginInit(r))
          /\ WF_vars(InitTimeout(r))

----------------------------------------------------------------------------
(* The application mounted once, with the wall clock Date.now() reads: it   *)
(* advances in whole milliseconds between any two steps, or not at all, and *)
(* the system may set it back (a clock adjustment)                          *)

MaxClock == 2

ClockAdvance ==
    /\ now < MaxClock
    /\ now' = now + 1
    /\ UNCHANGED <<appVars, meshVars, genVars, scriptVars>>

ClockSetBack ==
    /\ now > 0
    /\ now' \in 0..(now - 1)
    /\ UNCHANGED <<appVars, meshVars, genVars, scriptVars>>

ClockNext == Next \/ ClockAdvance \/ ClockSetBack

ClockSpec == Init /\ [][ClockNext]_vars

----------------------------------------------------------------------------
(* calculateGestureData and one loop iteration over a grid of landmark     *)
(* inputs, from the state of a running detection loop                      *)

GridX == {100, 300, 450, 600}
GridY == {-100, 300, 500, 1100}
WristPts == {Pt(px, py) : px \in GridX, py \in GridY}

TwoHandResults ==
    {Result(<<WristOnly(w1), WristOnly(w2)>>) : w1 \in WristPts, w2 \in WristPts}

OneHandResults ==
    {Result(<<Hand(w, t, m, p)>>) :
        w \in {Pt(300, -100), Pt(300, 500), Pt(300, 1100)},
        t \in {Pt(200, 400), Pt(300, 400)},
        m \in {Pt(300, 500), Pt(300, 400), Pt(300, 200)},
        p \in {Pt(200, 400), Pt(260, 400), Pt(400, 400), Pt(500, 450)}}

ManyHandResults ==
    {Result(<<WristOnly(w1), WristOnly(w2), WristOnly(Pt(300, 300))>>) :
        w1 \in {Pt(100, 300), Pt(300, 500)}, w2 \in {Pt(600, 300), Pt(300, 1100)}}

Results ==
    {NoLandmarks, Result(<<>>)} \cup OneHandResults \cup TwoHandResults
        \cup ManyHandResults

\* A detection loop is running (after PlayResolved's first iteration found
\* the video not ready), and `result` is the next detection result.
GestureInit ==
    /\ mounted = TRUE
    /\ videoRef = TRUE
    /\ srcObject = 1
    /\ stream = [r \in Runs |-> IF r = 1 THEN "live" ELSE "none"]
    /\ pc = [r \in Runs |-> IF r = 1 THEN "looping" ELSE "idle"]
    /\ waitCount = [r \in Runs |-> 0]
    /\ initPc = [r \in Runs |-> IF r = 1 THEN "resolved" ELSE "none"]
    /\ handLandmarker = TRUE
    /\ loading = FALSE
    /\ isTracking = TRUE
    /\ error = NoError
    /\ detectedHands = 0
    /\ gestureRef = DefaultGesture
    /\ requestRef = 1
    /\ pending = [r \in Runs |-> IF r = 1 THEN 1 ELSE 0]
    /\ failure = [r \in Runs |-> "none"]
    /\ lastFrame = "notReady"
    /\ initCalls = 1
    /\ gumCalls = 1
    /\ result \in Results
    /\ data = <<>>
    /\ now = 0
    /\ lastTs = NoTs
    /\ tsOk = TRUE
    /\ stored = 1
    /\ returned = [r \in Runs |-> IF r = 1 THEN 1 ELSE 0]
    /\ MeshInit
    /\ GenIdle
    /\ ScriptIdle

\* const data = calculateGestureData(result)
Calc ==
    /\ data = <<>>
    /\ data' = <<calculateGestureData(result)>>
    /\ UNCHANGED <<lifeVars, uiVars, loopVars, result, otherVars>>

\* The loop iteration on which the detector returns `result`.
ResultFrame ==
    /\ lastFrame = "notReady"
    /\ pending[1] > 0
    /\ LoopBody(1, pending[1] - 1, TRUE, Detection(FALSE, result))
    /\ UNCHANGED <<lifeVars, uiVars, calcVars, otherVars>>

GestureNext == Calc \/ ResultFrame

GestureSpec == GestureInit /\ [][GestureNext]_vars

----------------------------------------------------------------------------
(* App.tsx and components/ParticleMesh.tsx: the scene.  A detection loop   *)
(* writes the mailbox, the user picks shapes, and the render loop runs the *)
(* mesh's frame callback                                                   *)

MaxFrames == 4

\* setActiveShape(s) and the commit it causes: key={activeShape} unmounts the
\* mesh and mounts a new instance, whose memo is computed afresh, whose
\* bufferAttribute elements hold the memo's buffers, whose uniforms and
\* rotation are new, and whose effect is yet to run.
SelectShape(s) ==
    /\ s # activeShape
    /\ activeShape' = s
    /\ LET memo == MeshMemo(s, ParticleCount)
       IN  /\ positions' = memo.positions
           /\ randomness' = memo.randomness
           /\ attrPosition' = memo.positions
           /\ attrRandom' = memo.randomness
    /\ effectPending' = TRUE
    /\ uExpansion' = 0
    /\ rotationX' = 0
    /\ rotationY' = 0
    /\ UNCHANGED <<frames, appVars, now, genVars, scriptVars>>

\* useEffect(..., [positions, randomness, shape])
MeshEffect ==
    /\ effectPending
    /\ attrPosition' = positions
    /\ attrRandom' = randomness
    /\ rotationY' = IF activeShape = "HEART" \/ activeShape = "DL" THEN 0 ELSE rotationY
    /\ effectPending' = FALSE
    /\ UNCHANGED <<activeShape, positions, randomness, uExpansion, rotationX, frames,
                   appVars, now, genVars, scriptVars>>

\* The useFrame callback.
FrameUpdate ==
    /\ uExpansion' = ExpansionStep(uExpansion, gestureRef.expansion)
    /\ rotationY' = IF Spins(activeShape) THEN rotationY + SpinStep ELSE rotationY
    /\ rotationX' = Lerp(rotationX, TargetTilt(gestureRef.lift), TiltSpeed)
    /\ frames' = frames + 1
    /\ UNCHANGED <<activeShape, positions, randomness, attrPosition, attrRandom,
                   effectPending, appVars, now, genVars, scriptVars>>

RenderFrame == frames < MaxFrames /\ FrameUpdate

RenderInit == GestureInit /\ result = NoLandmarks

RenderNext ==
    \/ LoopFrame(1)
    \/ \E s \in Shapes : SelectShape(s)
    \/ MeshEffect
    \/ RenderFrame

RenderSpec == RenderInit /\ [][RenderNext]_vars

----------------------------------------------------------------------------
(* The tilt over many render frames: one detection result reaches the       *)
(* mailbox, before, between or after the frames                             *)

MaxTiltFrames == 40

TiltResults ==
    {res \in OneHandResults :
        /\ res.landmarks[1].thumbTip = Pt(300, 400)
        /\ res.landmarks[1].middleMCP = Pt(300, 200)
        /\ res.landmarks[1].pinkyTip = Pt(400, 400)}

TiltInit == GestureInit /\ result \in TiltResults

TiltFrame == frames < MaxTiltFrames /\ FrameUpdate

TiltNext == ResultFrame \/ TiltFrame

TiltSpec == TiltInit /\ [][TiltNext]_vars

----------------------------------------------------------------------------
(* utils/geometry.ts: generateParticles.  Math.random() is a draw from a   *)
(* small set that has a value on each side of every threshold the code     *)
(* compares a draw with; d is the list of a particle's draws in the order  *)
(* the code makes them.  A coordinate is a finite number unless a function *)
(* it is computed with is applied outside its domain.                      *)

MaxCount == 4

RandomDraws == {0, 200, 450, 650, 800, 999}

\* Math.pow(base, e) with a fractional e is NaN for a negative base.
PowDefined(base) == base >= 0

\* Math.acos(x) is NaN outside [-1, 1].
AcosDefined(x) == 0 - Scale <= x /\ x <= Scale

\* Math.sqrt(x) is NaN for a negative x.
SqrtDefined(x) == x >= 0

\* randomPointInSphere: phi = Math.acos(2 * v - 1), v the second draw.
randomPointInSphere(v) == [finite |-> AcosDefined(2 * v - Scale)]

\* Math.floor(Math.random() * 6)
SideOf(draw) == (draw * 6) \div Scale

LSides == <<"lLeft", "lTop", "lInnerVertical", "lInnerHorizontal", "lRightTip", "lBottom">>

Point(b, f) == [branch |-> b, finite |-> f]

\* The body of the loop for particle i up to its setPoint call: the branch
\* taken and whether the three coordinates handed to setPoint are finite.
Particle(shape, i, count, d) ==
    CASE shape = "HEART" ->
            IF d[2] < 700 THEN Point("heartBorder", TRUE)
            ELSE Point("heartCenter", PowDefined(d[3]))
      [] shape = "ROSE" ->
            IF d[1] < 150
            THEN IF d[5] < 50 THEN Point("roseThorn", TRUE) ELSE Point("roseStem", TRUE)
            ELSE Point("roseHead", PowDefined(d[2]))
      [] shape = "SATURN" ->
            IF d[1] > 400 THEN Point("saturnRing", TRUE)
            ELSE Point("saturnPlanet", randomPointInSphere(d[3]).finite)
      [] shape = "DL" ->
            IF 2 * i < count
            THEN IF d[1] < 700
                 THEN IF d[2] < 400 THEN Point("dBackStroke", TRUE)
                      ELSE Point("dFrontStroke", TRUE)
                 ELSE IF d[2] < 500 THEN Point("dVerticalFill", TRUE)
                      ELSE Point("dArcFill", TRUE)
            ELSE IF d[1] < 700
                 THEN IF SideOf(d[2]) \in 0..5 THEN Point(LSides[SideOf(d[2]) + 1], TRUE)
                      ELSE Point("lNoSide", TRUE)
                 ELSE IF d[2] < 600 THEN Point("lVerticalFill", TRUE)
                      ELSE Point("lHorizontalFill", TRUE)
      [] shape = "TREE" ->
            IF d[1] > 950 THEN Point("treeStar", randomPointInSphere(d[3]).finite)
            ELSE Point("treeCone", SqrtDefined(d[3]))
      [] OTHER -> Point("default", TRUE)

\* A mutation of setPoint: the slots are packed two components apart
\* (positions[i * 2], positions[i * 2 + 1], positions[i * 2 + 2]).
setPointPacked(w, i) ==
    [k \in DOMAIN w |-> IF k - 1 \in {i * 2, i * 2 + 1, i * 2 + 2} THEN w[k] + 1 ELSE w[k]]

\* setPoint(i, x, y, z) on the record of writes w: components i * 3, i * 3 + 1
\* and i * 3 + 2 (component c is w[c + 1]); a write past the end is dropped.
setPoint(w, i) ==
    [k \in DOMAIN w |-> IF k - 1 \in {i * 3, i * 3 + 1, i * 3 + 2} THEN w[k] + 1 ELSE w[k]]

\* generateParticles(shape, count) was called: new Float32Array(count * 3),
\* nothing written yet, i = 0.
GenInit ==
    /\ AppInit /\ videoRef
    /\ MeshInit
    /\ ScriptIdle
    /\ genShape \in Shapes
    /\ genCount \in 1..MaxCount
    /\ genI = 0
    /\ written = [k \in 1..(genCount * 3) |-> 0]
    /\ finite = TRUE
    /\ branch = "none"
    /\ rand = <<>>

\* One iteration of the for loop.
GenStep ==
    /\ genI < genCount
    /\ \E d \in [1..5 -> RandomDraws] :
          LET p == Particle(genShape, genI, genCount, d)
          IN  /\ written' = setPoint(written, genI)
              /\ finite' = (finite /\ p.finite)
              /\ branch' = p.branch
    /\ genI' = genI + 1
    /\ UNCHANGED <<genShape, genCount, rand, appVars, now, meshVars, scriptVars>>

GenSpec == GenInit /\ [][GenStep]_vars

----------------------------------------------------------------------------
(* components/ParticleMesh.tsx: the loop that fills the direction buffer  *)

MaxDirCount == 2

\* Math.random() - 0.5
Centre == 500

DirDraws == {0, 200, 500, 900}

\* x / len, y / len, z / len with len = Math.sqrt(x*x + y*y + z*z) || 1
Direction(dx, dy, dz) ==
    LET x == dx - Centre
        y == dy - Centre
        z == dz - Centre
        measured == ISqrt(x * x + y * y + z * z)
        len == IF measured = 0 THEN Scale ELSE measured
    IN  <<(x * Scale) \div len, (y * Scale) \div len, (z * Scale) \div len>>

DirInit ==
    /\ AppInit /\ videoRef
    /\ MeshInit
    /\ ScriptIdle
    /\ genShape = "HEART"
    /\ genCount \in 1..MaxDirCount
    /\ genI = 0
    /\ written = <<>>
    /\ finite = TRUE
    /\ branch = "none"
    /\ rand = <<>>

\* One iteration of the for loop (i += 3).
DirStep ==
    /\ Len(rand) < genCount
    /\ \E dx \in DirDraws, dy \in DirDraws, dz \in DirDraws :
          rand' = Append(rand, Direction(dx, dy, dz))
    /\ UNCHANGED <<genShape, genCount, genI, written, finite, branch,
                   appVars, now, meshVars, scriptVars>>

DirSpec == DirInit /\ [][DirStep]_vars

----------------------------------------------------------------------------
(* The asset-preparation script (main, download): it copies the wasm files *)
(* and downloads the model file from the first mirror that answers.  A     *)
(* string is the tuple of its characters.                                  *)

\* if (redirects > 5)
RedirectLimit == 5

\* sources: MEDIAPIPE_MODEL_URL (or ''), the Google bucket, the AISTUDIO mirror
NumSources == 3

toLowerCase(s) == [k \in 1..Len(s) |-> ToLower(s[k])]

\* String(undefined)
Undefined == <<"u", "n", "d", "e", "f", "i", "n", "e", "d">>

SkipValues ==
    {Undefined, <<"1">>, <<"0">>, <<"t", "r", "u", "e">>, <<"T", "R", "U", "E">>}

\* SKIP_MP_PREPARE === '1' || String(SKIP_MP_PREPARE).toLowerCase() === 'true'
Skips(v) == v = <<"1">> \/ toLowerCase(v) = <<"t", "r", "u", "e">>

\* wasm: the package's wasm directory is "missing", "present", or present but
\* copying it throws ("unreadable"); model: the model file exists already;
\* envUrl: MEDIAPIPE_MODEL_URL is set.
Envs ==
    [skip : SkipValues, wasm : {"missing", "present", "unreadable"},
     model : BOOLEAN, envUrl : BOOLEAN]

ScriptInit ==
    /\ AppInit /\ videoRef
    /\ MeshInit
    /\ GenIdle
    /\ env \in Envs
    /\ sPc = "start"
    /\ mirror = 0
    /\ redirects = 0
    /\ copied = FALSE
    /\ requests = 0
    /\ modelWritten = FALSE
    /\ exitCode = "unset"

ScriptUnchanged == UNCHANGED <<env, appVars, now, meshVars, genVars>>

\* main() up to its first await, or to its return.
ScriptMain ==
    /\ sPc = "start"
    /\ IF Skips(env.skip)
       THEN /\ sPc' = "returned"
            /\ UNCHANGED <<mirror, redirects, copied, requests>>
       ELSE IF env.wasm = "unreadable"
       THEN \* copyDir throws; the catch block warns and returns 0
            /\ sPc' = "returned"
            /\ UNCHANGED <<mirror, redirects, copied, requests>>
       ELSE /\ copied' = (env.wasm = "present")
            /\ IF env.model
               THEN /\ sPc' = "returned"
                    /\ UNCHANGED <<mirror, redirects, requests>>
               ELSE \* for (const url of sources): '' is skipped
                    /\ mirror' = (IF env.envUrl THEN 1 ELSE 2)
                    /\ redirects' = 0
                    /\ requests' = requests + 1
                    /\ sPc' = "request"
    /\ UNCHANGED <<modelWritten, exitCode>>
    /\ ScriptUnchanged

\* download's promise was rejected: the loop's catch warns and goes to the
\* next source; after the last one main throws, its catch warns and returns 0.
Rejected ==
    /\ IF mirror < NumSources
       THEN /\ mirror' = mirror + 1
            /\ redirects' = 0
            /\ requests' = requests + 1
            /\ sPc' = "request"
       ELSE /\ sPc' = "returned"
            /\ UNCHANGED <<mirror, redirects, requests>>
    /\ UNCHANGED <<copied, modelWritten, exitCode>>
    /\ ScriptUnchanged

\* The request emits 'error'.
RequestError ==
    /\ sPc = "request"
    /\ Rejected

\* A 3xx response with a location header.
ResponseRedirect ==
    /\ sPc = "request"
    /\ IF redirects > RedirectLimit
       THEN Rejected
       ELSE /\ redirects' = redirects + 1
            /\ requests' = requests + 1
            /\ UNCHANGED <<sPc, mirror, copied, modelWritten, exitCode>>
            /\ ScriptUnchanged

\* A response whose status is not 200 (and no redirect to follow).
ResponseStatus ==
    /\ sPc = "request"
    /\ Rejected

\* Status 200: ensureDir, createWriteStream, res.pipe(file).
ResponseOk ==
    /\ sPc = "request"
    /\ sPc' = "writing"
    /\ UNCHANGED <<mirror, redirects, copied, requests, modelWritten, exitCode>>
    /\ ScriptUnchanged

\* An exception nothing catches ends the process with exit code 1.
Crash ==
    /\ sPc' = "exited"
    /\ exitCode' = 1
    /\ UNCHANGED <<mirror, redirects, copied, requests, modelWritten>>
    /\ ScriptUnchanged

\* Status 200 and ensureDir throws (mkdirSync fails): the exception is thrown
\* in the response callback, outside the promise's executor.
ResponseOkMkdirThrows ==
    /\ sPc = "request"
    /\ Crash

\* The write stream emits 'finish': file.close, resolve(dest), and main goes
\* on to its end.
WriteFinish ==
    /\ sPc = "writing"
    /\ modelWritten' = TRUE
    /\ sPc' = "returned"
    /\ UNCHANGED <<mirror, redirects, copied, requests, exitCode>>
    /\ ScriptUnchanged

\* The write stream emits 'error' (disk full, no permission): it has no
\* 'error' listener but pipe's, which rethrows.
WriteError ==
    /\ sPc = "writing"
    /\ Crash

\* main's promise is settled: process.exitCode = 0, and the process ends.
ScriptExit ==
    /\ sPc = "returned"
    /\ sPc' = "exited"
    /\ exitCode' = 0
    /\ UNCHANGED <<mirror, redirects, copied, requests, modelWritten>>
    /\ ScriptUnchanged

ScriptNext ==
    \/ ScriptMain
    \/ RequestError
    \/ ResponseRedirect
    \/ ResponseStatus
    \/ ResponseOk
    \/ ResponseOkMkdirThrows
    \/ WriteFinish
    \/ WriteError
    \/ ScriptExit

ScriptSpec == ScriptInit /\ [][ScriptNext]_vars

----------------------------------------------------------------------------
(* The application with its mount effect run again after a cleanup (React  *)
(* re-running the effect on the same component: refs, state and the video  *)
(* element persist)                                                        *)

\* The mount effect runs for the r-th time: startDetection() up to its first
\* await.
Mount(r) ==
    /\ ~mounted
    /\ pc[r] = "idle"
    /\ \A q \in Runs : q < r => pc[q] # "idle"
    /\ mounted' = TRUE
    /\ IF videoRef
       THEN /\ loading' = TRUE
            /\ initCalls' = initCalls + 1
            /\ IF handLandmarker
               THEN /\ returned' = [returned EXCEPT ![r] = stored]
                    /\ initPc' = [initPc EXCEPT ![r] = "resolved"]
                    /\ pc' = [pc EXCEPT ![r] = "awaitGum"]
                    /\ gumCalls' = gumCalls + 1
               ELSE /\ initPc' = [initPc EXCEPT ![r] = "fileset"]
                    /\ pc' = [pc EXCEPT ![r] = "awaitInit"]
                    /\ gumCalls' = gumCalls
                    /\ returned' = returned
       ELSE /\ pc' = [pc EXCEPT ![r] = "waitVideo"]
            /\ UNCHANGED <<loading, initCalls, initPc, gumCalls, returned>>
    /\ UNCHANGED <<videoRef, srcObject, stream, waitCount, handLandmarker, failure,
                   isTracking, error, loopVars, calcVars, stored,
                   now, meshVars, genVars, scriptVars>>

\* The video element stays in place over the cleanup and the re-run, so no
\* run waits for videoRef.
RemountInit == Init /\ videoRef

RemountNext ==
    \/ Teardown
    \/ \E r \in Runs :
          \/ Mount(r)
          \/ InitFilesetResolved(r)
          \/ InitCreated(r)
          \/ InitRejected(r)
          \/ InitTimeout(r)
          \/ GumResolved(r)
          \/ GumRejected(r)
          \/ PlayResolved(r)
          \/ PlayRejected(r)
          \/ LoopFrame(r)

RemountSpec == RemountInit /\ [][RemountNext]_vars

----------------------------------------------------------------------------
(* Claims *)

InUnit(v) == 0 <= v /\ v <= Scale

\* C1 (as claimed): a frame whose detection failed (detectHands returned null,
\* or the loop body threw) leaves the mailbox at {expansion: 0, lift: 0.5} and
\* the displayed hand count at 0.
C1_FailedFrameIsZeroHands ==
    lastFrame \in {"null", "threw"} =>
        gestureRef = DefaultGesture /\ detectedHands = 0

\* C2 (as claimed): once the cleanup ran, no detection-loop callback is
\* pending, no camera stream is live and the video has no srcObject.
C2_TeardownReleasesAll ==
    ~mounted =>
        /\ \A r \in Runs : pending[r] = 0 /\ stream[r] # "live"
        /\ srcObject = 0

SetupDone(r) ==
    \/ pc[r] = "looping"
    \/ pc[r] = "failed" /\ ~loading /\ error # NoError

\* C3 (as claimed): a run waiting for model initialization, for getUserMedia
\* or for play() eventually starts the loop or leaves the loading state with
\* an error shown, also when the awaited step never completes.
C3_EverySetupStepTimesOut ==
    \A r \in Runs :
        (pc[r] \in {"awaitInit", "awaitGum", "awaitPlay"}) ~> SetupDone(r)

\* C3 (amended): a run waiting for model initialization eventually goes on
\* (initialization completed) or leaves the loading state with an error
\* shown, also when initialization never completes.
C3_InitTimesOut ==
    \A r \in Runs :
        (pc[r] = "awaitInit") ~>
            (pc[r] = "awaitGum" \/ (pc[r] = "failed" /\ ~loading /\ error # NoError))

\* C3 witness: the timer ended a run whose initialization had not completed.
C3_Witness ==
    /\ pc[1] = "failed" /\ failure[1] = "init_timeout"
    /\ initPc[1] \in {"fileset", "create"}
    /\ ~loading /\ error = "network"

\* C4: a run that failed shows an error, with loading and tracking off and no
\* loop callback of its own pending, and it stays failed: from then on
\* neither initializeHandDetection nor getUserMedia is called again.
C4_FailureIsFinal ==
    [][\A r \in Runs :
          /\ pc'[r] = "failed" =>
                /\ error' # NoError /\ ~loading' /\ ~isTracking'
                /\ pending'[r] = 0
          /\ pc[r] = "failed" =>
                /\ pc'[r] = "failed"
                /\ initCalls' = initCalls /\ gumCalls' = gumCalls]_vars

\* C4 witness: getUserMedia was denied and the error state is shown.
C4_Witness ==
    /\ pc[1] = "failed" /\ failure[1] = "denied"
    /\ error = "camera" /\ ~loading /\ ~isTracking
    /\ initCalls = 1 /\ gumCalls = 1

\* The message the claim assigns to each failure kind.
IsPermissionFailure(id) ==
    \/ ErrorOf(id).name = "NotAllowedError"
    \/ RegexTest(PermissionWords, ErrorOf(id).message)

ExpectedMessage(id) ==
    IF IsPermissionFailure(id) THEN "camera"
    ELSE IF id = "init_timeout" \/ id \in InitErrors THEN "network"
    ELSE "generic"

\* C5 (as claimed): a failed run shows the message of its failure kind: the
\* camera-denied message for a permission failure, the network-timeout
\* message for the initialization timeout and load failures, the generic
\* message otherwise.
C5_MessagePerFailureKind ==
    \A r \in Runs :
        pc[r] = "failed" => error = ExpectedMessage(failure[r])

\* C6: until teardown a started loop has exactly one pending callback after
\* every iteration, however the iteration's detection went.
C6_LoopKeepsScheduling ==
    \A r \in Runs :
        pc[r] = "looping" /\ mounted => pending[r] = 1

\* C6 witness: the loop goes on after an iteration whose body threw.
C6_Witness ==
    /\ pc[1] = "looping" /\ mounted
    /\ lastFrame = "threw"
    /\ pending[1] = 1 /\ requestRef = 1

\* C7 (as claimed): the lift calculateGestureData returns and the lift in the
\* mailbox are within [0, 1].
C7_LiftInUnitRange ==
    /\ data # <<>> => InUnit(data[1].lift)
    /\ InUnit(gestureRef.lift)

\* C8: the expansion calculateGestureData returns and the expansion in the
\* mailbox are within [0, 1].
C8_ExpansionInUnitRange ==
    /\ data # <<>> => InUnit(data[1].expansion)
    /\ InUnit(gestureRef.expansion)

\* C8 witness: two wrists further apart than maxD; the raw value above 1 was
\* clamped, in the returned data and in the mailbox.
C8_Witness ==
    /\ data # <<>> /\ lastFrame = "detected"
    /\ NumHands(result) = 2
    /\ Dist2(result.landmarks[1].wrist, result.landmarks[2].wrist) > MaxD * MaxD
    /\ data[1].expansion = Scale /\ gestureRef.expansion = Scale

\* C9: for a result with no landmarks, zero hands or more than two hands
\* calculateGestureData returns {expansion: 0, lift: 0.5}.
C9_OtherCountsGiveDefault ==
    data # <<>> /\ NumHands(result) \notin {1, 2} => data[1] = DefaultGesture

\* C9 witness: three hands, the first two wide apart, give the default.
C9_Witness ==
    /\ data # <<>>
    /\ NumHands(result) = 3
    /\ Dist2(result.landmarks[1].wrist, result.landmarks[2].wrist) >= MaxD * MaxD
    /\ data[1] = DefaultGesture

\* e is d rescaled from [MinD, MaxD] to [0, Scale] and clamped, where d is the
\* floor of the square root of d2.
IsRescaledDistance(e, d2) ==
    /\ d2 <= MinD * MinD => e = 0
    /\ d2 >= MaxD * MaxD => e = Scale
    /\ MinD * MinD < d2 /\ d2 < MaxD * MaxD =>
          \E d \in MinD..MaxD :
              /\ d * d <= d2 /\ d2 < (d + 1) * (d + 1)
              /\ e * (MaxD - MinD) <= (d - MinD) * Scale
              /\ (d - MinD) * Scale < (e + 1) * (MaxD - MinD)

WristDist2(res) == Dist2(res.landmarks[1].wrist, res.landmarks[2].wrist)

\* C10: with two hands the expansion is the inter-wrist distance rescaled from
\* [0.15, 0.50] to [0, 1] and clamped, it does not decrease when the distance
\* grows, and the lift is the average of the two wrists' y.
C10_TwoHands ==
    data # <<>> /\ NumHands(result) = 2 =>
        /\ IsRescaledDistance(data[1].expansion, WristDist2(result))
        /\ 2 * data[1].lift = result.landmarks[1].wrist.y + result.landmarks[2].wrist.y
        /\ \A other \in TwoHandResults :
              WristDist2(result) <= WristDist2(other) =>
                  data[1].expansion <= calculateGestureData(other).expansion

\* C10 witness: a distance strictly between minD and maxD and an expansion
\* strictly between 0 and 1.
C10_Witness ==
    /\ data # <<>> /\ NumHands(result) = 2
    /\ MinD * MinD < WristDist2(result) /\ WristDist2(result) < MaxD * MaxD
    /\ 0 < data[1].expansion /\ data[1].expansion < Scale

\* C11: for one hand whose thumb tip and pinky tip coincide the expansion is
\* 0 whatever the hand size, also when the hand-size reference is 0 and 0.1
\* stands in for it, and the lift is the wrist's y.
C11_ClosedHand ==
    /\ data # <<>> /\ NumHands(result) = 1
    /\ result.landmarks[1].thumbTip = result.landmarks[1].pinkyTip
    => /\ data[1].expansion = 0
       /\ data[1].lift = result.landmarks[1].wrist.y

\* C11 witness: tips coincide and the middle-finger knuckle lies on the wrist
\* (hand size 0); the result was computed and reached the mailbox.
C11_Witness ==
    /\ data # <<>> /\ NumHands(result) = 1 /\ lastFrame = "detected"
    /\ result.landmarks[1].thumbTip = result.landmarks[1].pinkyTip
    /\ result.landmarks[1].middleMCP = result.landmarks[1].wrist
    /\ data[1].expansion = 0 /\ gestureRef = data[1]

\* C12 (as claimed): the timestamps handed to the detector on successive loop
\* iterations of a run are strictly increasing: no detectForVideo call gets
\* the timestamp of the call before it, or an earlier one.
C12_TimestampsIncrease == tsOk

\* C13: at every moment, so at every render frame, the geometry's position
\* and explosion-direction buffers are the two buffers of one memo: both of
\* length 3 * count and both generated for the shape shown and the count.
C13_BuffersPaired ==
    /\ attrPosition.length = 3 * ParticleCount
    /\ attrRandom.length = 3 * ParticleCount
    /\ attrPosition.shape = activeShape /\ attrRandom.shape = activeShape
    /\ attrPosition.count = ParticleCount /\ attrRandom.count = ParticleCount

\* C13 witness: another shape was picked and a frame was rendered before the
\* new mesh's effect ran; both buffers are the new shape's.
C13_Witness ==
    /\ activeShape = "SATURN" /\ effectPending /\ frames > 0 /\ rotationY > 0
    /\ attrPosition = Buffer("SATURN", ParticleCount, 3 * ParticleCount)
    /\ attrRandom = Buffer("SATURN", ParticleCount, 3 * ParticleCount)

\* C14: a render frame moves the smoothed expansion a tenth of the way to the
\* mailbox's expansion (rounded down to the unit), rising or falling alike;
\* the new value lies between the old one and the target, and within [0, 1].
C14_ExpansionSmoothing ==
    [][frames' = frames + 1 =>
          /\ 10 * (uExpansion' - uExpansion) <= gestureRef.expansion - uExpansion
          /\ gestureRef.expansion - uExpansion < 10 * (uExpansion' - uExpansion) + 10
          /\ Min(uExpansion, gestureRef.expansion) <= uExpansion'
          /\ uExpansion' <= Max(uExpansion, gestureRef.expansion)
          /\ InUnit(uExpansion')]_vars

\* C14 witness: the smoothed expansion rose towards 1 and is now falling
\* towards a target of 0.
C14_Witness ==
    /\ frames >= 2
    /\ gestureRef.expansion = 0
    /\ 0 < uExpansion /\ uExpansion < LerpSpeed

\* C15 (as claimed): the mesh's X rotation stays within [-0.75, 0.75].
C15_TiltInRange ==
    /\ 0 - (TiltGain \div 2) <= rotationX
    /\ rotationX <= TiltGain \div 2

\* C16: a render frame adds 0.001 to the Y rotation for Rose, Saturn and Tree
\* and leaves it unchanged for Heart and DL, for which it is 0 from the moment
\* the shape is shown.
C16_IdleSpin ==
    [][/\ frames' = frames + 1 =>
             IF activeShape \in {"ROSE", "SATURN", "TREE"}
             THEN rotationY' = rotationY + 1
             ELSE rotationY' = rotationY
       /\ activeShape' \in {"HEART", "DL"} => rotationY' = 0]_vars

\* C16 witness: DL is shown after a shape that span, frames were rendered
\* before and after its effect ran, and its Y rotation is 0.
C16_Witness ==
    /\ activeShape = "DL" /\ ~effectPending
    /\ frames = MaxFrames /\ rotationY = 0
    /\ uExpansion > 0

\* C18: when generateParticles returns, the buffer has exactly 3 * count
\* components, each written exactly once (one setPoint call per index, none
\* skipped, none repeated), and every component is a finite number; while it
\* runs, exactly the slots below i are written.
C18_AllSlotsWritten ==
    genCount > 0 /\ written # <<>> =>
        /\ Len(written) = 3 * genCount
        /\ \A k \in 1..Len(written) :
              written[k] = (IF k <= 3 * genI THEN 1 ELSE 0)
        /\ finite
        /\ genI <= genCount

\* C18 witness: DL with an odd count returned; the last particle took a
\* side of the L's outline.
C18_Witness ==
    /\ genShape = "DL" /\ genCount = 3 /\ genI = genCount
    /\ branch = "lBottom"
    /\ \A k \in 1..9 : written[k] = 1

\* The squared length of v is within 1% of 1.
IsUnit(v) ==
    LET len2 == v[1] * v[1] + v[2] * v[2] + v[3] * v[3]
    IN  990 * 990 <= len2 /\ len2 <= 1010 * 1010

\* C19 (as claimed): every direction in the buffer has unit length, whatever
\* the three draws were.
C19_DirectionsUnit ==
    \A k \in 1..Len(rand) : IsUnit(rand[k])

\* C17 (as claimed): the asset-preparation script's process ends with exit
\* code 0 on every path, and with the skip flag '1' or 'true' it copies and
\* downloads nothing.
C17_NeverFailsBuild ==
    /\ sPc = "exited" => exitCode = 0
    /\ env.skip \in {<<"1">>, <<"t", "r", "u", "e">>} =>
          ~copied /\ requests = 0 /\ ~modelWritten

\* C20 (as claimed): at most one detection loop is alive: never more than one
\* animation-frame callback of a detection loop is pending, and requestRef
\* identifies the one that is.
C20_SingleLoop ==
    /\ \A r \in Runs : pending[r] <= 1
    /\ Cardinality({r \in Runs : pending[r] > 0}) <= 1
    /\ \A r \in Runs : pending[r] > 0 => requestRef = r

\* C21 (as claimed): the detector is a singleton: at most one call of
\* initializeHandDetection created a detector, all calls that resolved
\* returned the same detector, and detectHands returns null whenever no
\* detector is stored.
C21_DetectorSingleton ==
    /\ Cardinality({r \in Runs : returned[r] = r}) <= 1
    /\ \A r \in Runs, q \in Runs :
          returned[r] # 0 /\ returned[q] # 0 => returned[r] = returned[q]
    /\ handLandmarker = (stored # 0)
    /\ ~handLandmarker => \A det \in Detections : detectHands(handLandmarker, det).isNull

=============================================================================
